---- MODULE Spec2Model ----
(***************************************************************************)
(* Model of the QGIS Server synchronisation hooks of GeoNode:              *)
(*   geonode/qgis_server/signals.py  (post-save / post-delete handlers)    *)
(*   models.py                       (QGISServerLayer.delete_qgis_layer)   *)
(*                                                                         *)
(* A file path is a sequence of tokens: directory and file names, the      *)
(* separator "/" and the extension dot ".".  "/qgis/a.shp" is              *)
(* <<"qgis", "/", "a", ".", "shp">>, and the empty string is << >>.        *)
(***************************************************************************)
EXTENDS Integers, Sequences, FiniteSets, TLC

\* ------------------------------------------------------------------------
\* Bounds of the model
\* ------------------------------------------------------------------------
\* Number of times the Layer is saved in one behaviour.
MaxSaves == 2
\* Number of times the upload's base file is renamed in one behaviour.
MaxRenames == 1

\* ------------------------------------------------------------------------
\* Program constants
\* ------------------------------------------------------------------------
accepted_format == <<"tif", "tiff", "asc", "shp", "shx", "dbf", "prj", "qml", "xml">>

QGIS_layer_directory == <<"qgis_layer">>

\* Directory of the content system's uploads (where layer base files live).
UploadDirectory == <<"uploaded">>

\* An optional value is a sequence of length 0 or 1.
None == << >>
Some(x) == <<x>>

\* ------------------------------------------------------------------------
\* os.path on token sequences
\* ------------------------------------------------------------------------
RECURSIVE LastIndexOf(_, _, _)
\* str.rfind restricted to p[1..n]: the largest i <= n with p[i] = tok, else 0.
LastIndexOf(p, tok, n) ==
    IF n = 0 THEN 0
    ELSE IF p[n] = tok THEN n
    ELSE LastIndexOf(p, tok, n - 1)

\* os.path.basename: what follows the last separator.
Basename(p) ==
    LET sep == LastIndexOf(p, "/", Len(p))
    IN  SubSeq(p, sep + 1, Len(p))

\* os.path.join of a directory and a file name.
Join(dir, name) ==
    IF dir = << >> THEN name ELSE dir \o <<"/">> \o name

\* Index at which os.path.splitext cuts p (Len(p) + 1 when there is no
\* extension): the last dot after the last separator, unless every token
\* between the separator and that dot is itself a dot (a leading-dot name).
SplitIndex(p) ==
    LET sep == LastIndexOf(p, "/", Len(p))
        dot == LastIndexOf(p, ".", Len(p))
    IN  IF dot > sep /\ (\E k \in (sep + 1)..(dot - 1) : p[k] # ".")
        THEN dot
        ELSE Len(p) + 1

\* os.path.splitext(p)[0]
SplitextRoot(p) == SubSeq(p, 1, SplitIndex(p) - 1)

\* os.path.splitext(p)[1] (with its dot, or empty)
SplitextExt(p) == SubSeq(p, SplitIndex(p), Len(p))

\* base + '.' + ext
WithExt(base, ext) == base \o <<".", ext>>

\* ------------------------------------------------------------------------
\* The datasets an upload can hold
\* ------------------------------------------------------------------------
\* EPSG code of the reference the map client displays in.
Epsg4326 == 4326

\* EPSG codes of the spatial references a dataset can be stored in.
EpsgCodes == {Epsg4326, 3857}

\* 'EPSG:{0}'.format(code)
EpsgString(code) == <<"EPSG", code>>

\* What probing the dataset yields: its EPSG code, an SRSException from
\* identify_epsg() (the reference is read but matches no EPSG code), or any
\* other exception raised while the dataset is opened.
ProbeOutcomes ==
    {[outcome |-> "epsg", code |-> c] : c \in EpsgCodes} \cup
    {[outcome |-> "SRSException", code |-> c] : c \in {3857}} \cup
    {[outcome |-> "Exception", code |-> c] : c \in {0}}

\* The three sniffing results of is_qlr / is_vector / is_raster.
Sniffs ==
    {[is_qlr |-> q, is_vector |-> v, is_raster |-> r] :
        q \in BOOLEAN, v \in BOOLEAN, r \in BOOLEAN} \
    {[is_qlr |-> q, is_vector |-> TRUE, is_raster |-> TRUE] : q \in BOOLEAN}

\* Base file names of the uploads.
Stems == {"a", "b"}
\* The name the upload has when the Layer is first stored.
FirstStem == "a"

Datasets ==
    {[sniff |-> s, probe |-> pr, qlr_type |-> t] :
        s \in Sniffs, pr \in ProbeOutcomes, t \in {"vector", "raster"}}

\* A dataset's probe only matters when it is probed, and its declared QLR
\* type only when it is a QLR: the other combinations are left out.
RelevantDataset(d) ==
    /\ (d.sniff.is_qlr \/ ~(d.sniff.is_vector \/ d.sniff.is_raster))
           => d.probe = [outcome |-> "epsg", code |-> Epsg4326]
    /\ ~d.sniff.is_qlr => d.qlr_type = "vector"

\* The extension of a dataset's base file and the extensions of the files
\* stored next to it (the base file included when its format is accepted).
Shape(d) ==
    IF d.sniff.is_qlr THEN [ext |-> "qlr", siblings |-> {"xml"}]
    ELSE IF d.sniff.is_vector THEN [ext |-> "shp", siblings |-> {"shp", "prj"}]
    ELSE IF d.sniff.is_raster THEN [ext |-> "tif", siblings |-> {"tif"}]
    ELSE [ext |-> "csv", siblings |-> {"qml"}]

Uploads ==
    {[stem |-> st, ext |-> Shape(d).ext, siblings |-> Shape(d).siblings,
      dataset |-> d] :
        st \in Stems, d \in {x \in Datasets : RelevantDataset(x)}}

\* instance.get_base_file()[0].file.path
BaseFilePath(u) == Join(UploadDirectory, <<u.stem, ".", u.ext>>)

\* The files of the upload that exist in the upload directory.
UploadFiles(u) ==
    {WithExt(Join(UploadDirectory, <<u.stem>>), e) : e \in u.siblings}

\* ------------------------------------------------------------------------
\* Bounding boxes and the coordinate transform
\* ------------------------------------------------------------------------
\* Bounding boxes are <<x0, y0, x1, y1>>; the Layer is first stored with one
\* of these, in one of these references.
InitialBoxes == {<<-8, 4, 12, 16>>}
InitialSrids == {EpsgString(c) : c \in EpsgCodes}

Min(S) == CHOOSE x \in S : \A y \in S : x <= y
Max(S) == CHOOSE x \in S : \A y \in S : x >= y

\* OGRGeometry.from_bbox: the corners of the box.
FromBbox(b) == {<<b[1], b[2]>>, <<b[1], b[4]>>, <<b[3], b[4]>>, <<b[3], b[2]>>}

\* CoordTransform(srs, SpatialReference('EPSG:4326')) applied to one point.
\* GDAL is outside the repository: the model keeps that the transform from
\* EPSG:4326 is the identity and that any other one moves the points (here,
\* it mirrors and halves the abscissa and halves the ordinate).
TransformPoint(code, pt) ==
    IF code = Epsg4326 THEN pt
    ELSE <<-(pt[1] \div 2), pt[2] \div 2>>

\* bound_geom.transform(coord_transform); bound_geom.envelope, as the
\* <<min_x, min_y, max_x, max_y>> the handler stores in bbox_x0, bbox_y0,
\* bbox_x1, bbox_y1.
TransformedEnvelope(code, b) ==
    LET pts == {TransformPoint(code, pt) : pt \in FromBbox(b)}
    IN  <<Min({pt[1] : pt \in pts}), Min({pt[2] : pt \in pts}),
          Max({pt[1] : pt \in pts}), Max({pt[2] : pt \in pts})>>

\* ------------------------------------------------------------------------
\* Link records
\* ------------------------------------------------------------------------
LayerName == "lyr"
Workspace == "geonode"
SITEURL == "http://site/"
LayerResource == "layer_resource"
MapResource == "map_resource"

\* urljoin(base_url, reverse(route, kwargs={...: key}))
Url(route, key) == <<SITEURL, route, key>>

\* The rows of L that a lookup selects.
Matching(L, lookup) ==
    {l \in L : \A k \in DOMAIN lookup : l[k] = lookup[k]}

\* Link.objects.update_or_create(**lookup, defaults=defaults) raises
\* MultipleObjectsReturned when the lookup selects more than one row.
UpsertRaises(L, lookup) == Cardinality(Matching(L, lookup)) > 1

\* update_or_create that never looks the row up.
UpdateOrCreate_AlwaysCreates(L, lookup, defaults) ==
    LET pks == {l.pk : l \in L}
        fresh == IF pks = {} THEN 1 ELSE Max(pks) + 1
    IN  L \cup {defaults @@ lookup @@ [pk |-> fresh]}

\* Link.objects.update_or_create(**lookup, defaults=defaults): the selected
\* row takes the defaults; when there is none, a row is created from the
\* lookup and the defaults under a fresh primary key.
UpdateOrCreate(L, lookup, defaults) ==
    LET hit == Matching(L, lookup)
        pks == {l.pk : l \in L}
        fresh == IF pks = {} THEN 1 ELSE Max(pks) + 1
        created == defaults @@ lookup @@ [pk |-> fresh]
    IN  IF hit = {}
        THEN L \cup {created}
        ELSE (L \ hit) \cup {defaults @@ l : l \in hit}

RECURSIVE UpsertAll(_, _)
\* A run of update_or_create calls, in order; ok is FALSE when one raised,
\* and the calls after it are not made.
UpsertAll(L, calls) ==
    IF calls = << >> THEN [links |-> L, ok |-> TRUE]
    ELSE IF UpsertRaises(L, Head(calls).lookup)
         THEN [links |-> L, ok |-> FALSE]
         ELSE UpsertAll(UpdateOrCreate(L, Head(calls).lookup, Head(calls).defaults),
                        Tail(calls))

\* ------------------------------------------------------------------------
\* State
\* ------------------------------------------------------------------------
VARIABLES
    layer,        \* the Layer row: srid, bbox, store_vector (Layer.is_vector())
    upload,       \* the Layer's base file and its siblings, or None
    qgisLayer,    \* the QGISServerLayer row of the Layer, or None
    fs,           \* files written by the handlers: [path, content]
    links,        \* the Link table
    tile_cache,   \* base names that have a tile-cache subdirectory
    run,          \* per worker: the position and locals of its handler run
    saves,        \* number of saves of the Layer made so far
    renames,      \* number of renames of the upload made so far
    snapshot,     \* what the last completed run left, while nothing else changed
    stale,        \* the QGISServerLayer instance last deleted, or None
    layerTable,   \* alternates of the Layers a Map can refer to
    recorded,     \* those of them that have a QGISServerLayer row
    mapLayers,    \* the MapLayer rows of the Map
    qgisMap,      \* whether the Map has a QGISServerMap row
    mapBounds,    \* the layers the Map's stored bounds were computed from
    mapRun,       \* what the last run of the Map handler did
    mapSaves,     \* number of saves of the Map made so far
    backend,      \* check_ogc_backend(qgis_server.BACKEND_PACKAGE)
    receivers,    \* per model signal: the receivers connected to it
    registrations, \* number of calls of register_qgis_server_signals so far
    dispatched    \* the last signal sent and the hooks it called, or None

layerVars == <<layer, upload, qgisLayer, fs, tile_cache, run, saves, renames,
               snapshot, stale>>
mapVars == <<layerTable, recorded, mapLayers, qgisMap, mapBounds, mapRun, mapSaves>>
signalVars == <<backend, receivers, registrations, dispatched>>
vars == <<layerVars, links, mapVars, signalVars>>

\* ------------------------------------------------------------------------
\* register_qgis_server_signals
\* ------------------------------------------------------------------------
\* The model signals and the models that send them.
Signals == {"pre_save", "pre_delete", "post_save", "post_delete"}
Senders == {"Layer", "MapLayer", "Map", "QGISServerLayer"}

\* Lines 660-683: the six connect calls, in order.
Hooks ==
    <<[signal |-> "pre_save", receiver |-> "qgis_server_pre_save",
       dispatch_uid |-> "Layer-qgis_server_pre_save", sender |-> "Layer"],
      [signal |-> "pre_delete", receiver |-> "qgis_server_pre_delete",
       dispatch_uid |-> "Layer-qgis_server_pre_delete", sender |-> "Layer"],
      [signal |-> "post_save", receiver |-> "qgis_server_post_save",
       dispatch_uid |-> "Layer-qgis_server_post_save", sender |-> "Layer"],
      [signal |-> "pre_save", receiver |-> "qgis_server_pre_save_maplayer",
       dispatch_uid |-> "MapLayer-qgis_server_pre_save_maplayer",
       sender |-> "MapLayer"],
      [signal |-> "post_save", receiver |-> "qgis_server_post_save_map",
       dispatch_uid |-> "Map-qgis_server_post_save_map", sender |-> "Map"],
      [signal |-> "post_delete", receiver |-> "qgis_server_layer_post_delete",
       dispatch_uid |-> "QGISServerLayer-qgis_server_layer_post_delete",
       sender |-> "QGISServerLayer"]>>

\* connect that appends the receiver without looking for its key.
Connect_IgnoresDispatchUid(connected, receiver, dispatch_uid, sender) ==
    Append(connected, [dispatch_uid |-> dispatch_uid, sender |-> sender,
                       receiver |-> receiver])

\* Signal.connect(receiver, dispatch_uid=..., sender=...): the receiver is
\* appended under the key (dispatch_uid, sender) unless a receiver is
\* already connected under that key.
Connect(connected, receiver, dispatch_uid, sender) ==
    IF \E k \in 1..Len(connected) :
           connected[k].dispatch_uid = dispatch_uid /\ connected[k].sender = sender
    THEN connected
    ELSE Append(connected, [dispatch_uid |-> dispatch_uid, sender |-> sender,
                            receiver |-> receiver])

RECURSIVE ConnectAll(_, _)
\* The connect calls of hooks, in order, on the receivers rs of the signals.
ConnectAll(rs, hooks) ==
    IF hooks = << >> THEN rs
    ELSE LET h == Head(hooks)
         IN  ConnectAll([rs EXCEPT ![h.signal] =
                            Connect(@, h.receiver, h.dispatch_uid, h.sender)],
                        Tail(hooks))

\* The receivers of a signal that a send by this sender calls, in order.
LiveReceivers(connected, sender) ==
    LET ForSender(r) == r.sender = sender
        live == SelectSeq(connected, ForSender)
    IN  [k \in 1..Len(live) |-> live[k].receiver]

\* The signals a write to the database sends on behalf of its model:
\* Model.save() (get_or_create and update_or_create included) sends pre_save
\* and post_save, and QuerySet.update() sends none.
SignalsOfWrite(write) ==
    IF write.kind = "save" THEN {"pre_save", "post_save"} ELSE {}

\* The number of runs of the Layer post-save handler that a write starts.
Retriggers(write) ==
    Cardinality({<<signal, k>> \in SignalsOfWrite(write) \X (1..Len(Hooks)) :
        /\ k <= Len(LiveReceivers(receivers[signal], write.model))
        /\ LiveReceivers(receivers[signal], write.model)[k] = "qgis_server_post_save"})

\* The Layer written by a save of the model instance.
LayerWrite_ModelSave == [kind |-> "save", model |-> "Layer"]

\* Lines 206 and 223: Layer.objects.filter(id=instance.id).update(...)
LayerWrite == [kind |-> "update", model |-> "Layer"]

\* Line 165: qgis_layer.save()
RecordWrite == [kind |-> "save", model |-> "QGISServerLayer"]

\* Lines 247-418: Link.objects.update_or_create(...)
LinkWrite == [kind |-> "save", model |-> "Link"]

\* No receiver connected to any signal.
NoReceivers == [signal \in Signals |-> << >>]

\* The site as it runs the handlers: the backend is active and start-up has
\* called register_qgis_server_signals once.
HooksAttached ==
    /\ backend = TRUE
    /\ receivers = ConnectAll(NoReceivers, Hooks)
    /\ registrations = 1
    /\ dispatched = None

\* Workers that can run a handler.
Procs == {1, 2}

\* The locals of a handler run that has not started.
IdleRun ==
    [pc |-> "idle", path |-> << >>, created |-> FALSE, base_layer_path |-> << >>,
     i |-> 0, is_qlr_layer |-> FALSE, is_vector_layer |-> FALSE,
     is_raster_layer |-> FALSE, inst |-> [srid |-> << >>, bbox |-> << >>],
     skip_bound_transform |-> FALSE, srs |-> None, overwrite |-> FALSE,
     response |-> "", error |-> "", trace |-> << >>, before |-> None,
     entry |-> [srid |-> << >>, bbox |-> << >>], retriggers |-> 0]

Ended(p) == run[p].pc \in {"idle", "returned", "done", "raised"}

\* What a run leaves behind, as far as idempotence is concerned.
Observable ==
    [srid |-> layer.srid, bbox |-> layer.bbox,
     base_layer_path |-> qgisLayer, files |-> fs, links |-> links]

\* The tile-cache subdirectory of another layer of the site.
OtherTileCache == <<"other">>

\* A Map handler that has not run.
IdleMapRun ==
    [outcome |-> "idle", had_record |-> FALSE, created |-> FALSE,
     overwrite_attr |-> None, working |-> {}, basemap |-> None, relabelled |-> {},
     builds |-> << >>, styled |-> {}, thumbnails |-> << >>]

\* No Map in the picture.
NoMap ==
    /\ layerTable = {}
    /\ recorded = {}
    /\ mapLayers = {}
    /\ qgisMap = FALSE
    /\ mapBounds = {}
    /\ mapRun = IdleMapRun
    /\ mapSaves = 0

Init ==
    /\ NoMap
    /\ HooksAttached
    /\ layer \in [srid : InitialSrids, bbox : InitialBoxes, store_vector : BOOLEAN]
    /\ upload \in {None} \cup {Some(u) : u \in {x \in Uploads : x.stem = FirstStem}}
    /\ qgisLayer = None
    /\ fs = {}
    /\ links = {}
    /\ tile_cache = {OtherTileCache}
    /\ run = [p \in Procs |-> IdleRun]
    /\ saves = 0
    /\ renames = 0
    /\ snapshot = None
    /\ stale = None

\* The locals r with an event logged, and with an error raised.
Log(r, event) == [r EXCEPT !.trace = Append(@, event)]
Raise(r, error) == [r EXCEPT !.pc = "raised", !.error = error]

\* The locals r after a write of the run: the runs of this same handler
\* that the write started are counted.
Written(r, write) == [r EXCEPT !.retriggers = @ + Retriggers(write)]

\* ------------------------------------------------------------------------
\* qgis_server_post_save
\* ------------------------------------------------------------------------
\* The start of the handler with get_or_create made before the base file is
\* looked for.
StartSave_RecordFirst(p, overwrite) ==
    /\ Ended(p)
    /\ saves < MaxSaves
    /\ saves' = saves + 1
    /\ qgisLayer' = IF qgisLayer = None
                    THEN Some([base_layer_path |-> << >>]) ELSE qgisLayer
    /\ run' = [run EXCEPT ![p] =
           IF upload = None
           THEN [IdleRun EXCEPT !.pc = "returned"]
           ELSE [IdleRun EXCEPT
                    !.pc = "mirror",
                    !.path = BaseFilePath(upload[1]),
                    !.created = (qgisLayer = None),
                    !.base_layer_path = qgisLayer'[1].base_layer_path,
                    !.i = 1,
                    !.is_qlr_layer = upload[1].dataset.sniff.is_qlr,
                    !.is_vector_layer = upload[1].dataset.sniff.is_vector,
                    !.is_raster_layer = upload[1].dataset.sniff.is_raster,
                    !.overwrite = overwrite,
                    !.before = snapshot,
                    !.entry = [srid |-> layer.srid, bbox |-> layer.bbox]]]
    /\ snapshot' = None
    /\ UNCHANGED <<signalVars, mapVars, layer, upload, fs, links, tile_cache, renames, stale>>

\* Lines 106-129: the base file, get_or_create of the record, sniffing.
\* overwrite is the transient attribute the caller may have set on the
\* instance (read at line 340).
StartSave(p, overwrite) ==
    /\ Ended(p)
    /\ saves < MaxSaves
    /\ saves' = saves + 1
    /\ IF upload = None
       THEN /\ run' = [run EXCEPT ![p] = [IdleRun EXCEPT !.pc = "returned"]]
            /\ UNCHANGED qgisLayer
       ELSE LET u == upload[1]
                created == qgisLayer = None
                record == IF created THEN [base_layer_path |-> << >>]
                          ELSE qgisLayer[1]
            IN  /\ qgisLayer' = Some(record)
                /\ run' = [run EXCEPT ![p] =
                       [IdleRun EXCEPT
                           !.pc = "mirror",
                           !.path = BaseFilePath(u),
                           !.created = created,
                           !.base_layer_path = record.base_layer_path,
                           !.i = 1,
                           !.is_qlr_layer = u.dataset.sniff.is_qlr,
                           !.is_vector_layer = u.dataset.sniff.is_vector,
                           !.is_raster_layer = u.dataset.sniff.is_raster,
                           !.overwrite = overwrite,
                           !.before = snapshot,
                           !.entry = [srid |-> layer.srid, bbox |-> layer.bbox]]]
    /\ snapshot' = None
    /\ UNCHANGED <<signalVars, mapVars, layer, upload, fs, links, tile_cache, renames, stale>>

\* os.path.exists on a file of the upload directory.
UploadExists(path) == upload # None /\ path \in UploadFiles(upload[1])

\* qgis_layer.qgis_layer_path_prefix: base_layer_path without its extension.
qgis_layer_path_prefix(base_layer_path) == SplitextRoot(base_layer_path)

\* The copy always made as for a new record.
CopyDestination_AlwaysByName(created, base_layer_path, src, ext) ==
    Join(QGIS_layer_directory, Basename(src))

\* Where lines 135-149 copy the sibling src of extension ext.
CopyDestination(created, base_layer_path, src, ext) ==
    IF created
    THEN Join(QGIS_layer_directory, Basename(src))
    ELSE WithExt(qgis_layer_path_prefix(base_layer_path), ext)

\* shutil.copy2(src, dst): dst holds the content of src afterwards.
Copy2(files, dst, content) ==
    {f \in files : f.path # dst} \cup {[path |-> dst, content |-> content]}

\* What the except clause of line 154 does with a caught IOError e: it builds
\* 'Copying %s' % base_filename + '.' + ext + ' FAILED ' + e, and str + IOError
\* raises TypeError.
CopyFailureHandler(r) == Raise(Log(r, "copy_failed"), "TypeError")

\* Lines 132-156: one iteration of the loop over the accepted extensions.
\* ioerror tells whether shutil.copy2 raises IOError in this iteration.
Mirror(p, ioerror) ==
    LET r == run[p]
        ext == accepted_format[r.i]
        src == WithExt(SplitextRoot(r.path), ext)
        next == [r EXCEPT !.i = @ + 1,
                          !.pc = IF r.i = Len(accepted_format)
                                 THEN "save_record" ELSE "mirror"]
    IN  /\ r.pc = "mirror"
        /\ IF UploadExists(src)
           THEN IF ioerror
                THEN /\ run' = [run EXCEPT ![p] = CopyFailureHandler(next)]
                     /\ UNCHANGED fs
                ELSE /\ fs' = Copy2(fs,
                                CopyDestination(r.created, r.base_layer_path, src, ext),
                                upload[1].stem)
                     /\ run' = [run EXCEPT ![p] = Log(next, "copy")]
           ELSE /\ ioerror = FALSE
                /\ run' = [run EXCEPT ![p] = next]
                /\ UNCHANGED fs
        /\ UNCHANGED <<signalVars, mapVars, layer, upload, qgisLayer, links, tile_cache, saves, renames,
                       snapshot, stale>>

\* The path set on every save, not only on the creating one.
NewBaseLayerPath_EverySave(created, base_layer_path, geonode_layer_path) ==
    Join(QGIS_layer_directory,
         SplitextRoot(Basename(geonode_layer_path)) \o SplitextExt(geonode_layer_path))

\* The base_layer_path that lines 157-164 give a record: the upload's file
\* name under the render directory; an existing record keeps its own.
NewBaseLayerPath(created, base_layer_path, geonode_layer_path) ==
    IF created
    THEN LET geonode_filename == Basename(geonode_layer_path)
             basename == SplitextRoot(geonode_filename)
             original_ext == SplitextExt(geonode_layer_path)
         IN  Join(QGIS_layer_directory, basename \o original_ext)
    ELSE base_layer_path

\* Lines 157-168: set the path of a new record, save it, refresh the Layer.
SaveRecord(p) ==
    LET r == run[p]
        path == NewBaseLayerPath(r.created, r.base_layer_path, r.path)
    IN  /\ r.pc = "save_record"
        /\ qgisLayer' = Some([base_layer_path |-> path])
        /\ run' = [run EXCEPT ![p] =
               Log(Written([r EXCEPT !.pc = "probe",
                                     !.base_layer_path = path,
                                     !.inst = [srid |-> layer.srid,
                                               bbox |-> layer.bbox]],
                           RecordWrite),
                   "record")]
        /\ UNCHANGED <<signalVars, mapVars, layer, upload, fs, links, tile_cache, saves, renames,
                       snapshot, stale>>

\* The probe that reports a match whatever the stored srid is.
DetectSrs_AlwaysSkips(is_vector_layer, is_raster_layer, is_qlr_layer, probe, srid) ==
    [srs |-> IF probe.outcome = "Exception" THEN None ELSE Some(probe.code),
     skip_bound_transform |-> TRUE]

\* The probe that never reports a match.
DetectSrs_NeverSkips(is_vector_layer, is_raster_layer, is_qlr_layer, probe, srid) ==
    [srs |-> IF probe.outcome = "Exception" THEN None ELSE Some(probe.code),
     skip_bound_transform |-> FALSE]

\* Lines 171-200: the spatial reference of the dataset, and whether the
\* bounds need no transform.  srs stays unbound (None) when no statement
\* assigned it.
DetectSrs(is_vector_layer, is_raster_layer, is_qlr_layer, probe, srid) ==
    IF (is_vector_layer /\ ~is_qlr_layer) \/ (is_raster_layer /\ ~is_qlr_layer)
    THEN CASE probe.outcome = "epsg" ->
                [srs |-> Some(probe.code),
                 skip_bound_transform |-> (EpsgString(probe.code) = srid)]
           [] probe.outcome = "SRSException" ->
                [srs |-> Some(probe.code), skip_bound_transform |-> FALSE]
           [] OTHER ->
                [srs |-> None, skip_bound_transform |-> TRUE]
    ELSE [srs |-> None, skip_bound_transform |-> (None = srid)]

Probe(p) ==
    LET r == run[p]
        found == DetectSrs(r.is_vector_layer, r.is_raster_layer, r.is_qlr_layer,
                           upload[1].dataset.probe, r.inst.srid)
    IN  /\ r.pc = "probe"
        /\ run' = [run EXCEPT ![p] =
               [r EXCEPT !.pc = "qlr",
                         !.srs = found.srs,
                         !.skip_bound_transform = found.skip_bound_transform]]
        /\ UNCHANGED <<signalVars, mapVars, layer, upload, qgisLayer, fs, links, tile_cache, saves,
                       renames, snapshot, stale>>

\* populate_info_from_qlr: the Layer fields a QLR file declares.
populate_info_from_qlr(row) ==
    [row EXCEPT !.srid = EpsgString(Epsg4326), !.bbox = <<0, 0, 4, 4>>]

\* The QLR check that leaves the sniffed flags and the transform switch alone.
CheckQlr_KeepsSniffed(r, qlr_type) == r

\* Lines 202-212: a QLR file sets the Layer's fields and the two type flags,
\* and switches the bounds transform off.
CheckQlr(r, qlr_type) ==
    IF r.is_qlr_layer
    THEN [r EXCEPT !.is_vector_layer = (qlr_type = "vector"),
                   !.is_raster_layer = (qlr_type = "raster"),
                   !.skip_bound_transform = TRUE]
    ELSE r

Qlr(p) ==
    LET r == run[p]
        row == IF r.is_qlr_layer THEN populate_info_from_qlr(layer) ELSE layer
        refreshed == IF r.is_qlr_layer
                     THEN [srid |-> row.srid, bbox |-> row.bbox] ELSE r.inst
    IN  /\ r.pc = "qlr"
        /\ layer' = row
        /\ run' = [run EXCEPT ![p] =
               LET checked == [CheckQlr(r, upload[1].dataset.qlr_type) EXCEPT
                                  !.pc = "transform", !.inst = refreshed]
               IN  IF r.is_qlr_layer
                   THEN Log(Written(checked, LayerWrite), "qlr_info")
                   ELSE checked]
        /\ UNCHANGED <<signalVars, mapVars, upload, qgisLayer, fs, links, tile_cache, saves, renames,
                       snapshot, stale>>

\* Lines 214-229: the bounds in EPSG:4326.  CoordTransform(srs, ...) reads
\* srs, which is unbound when no branch of lines 174-185 assigned it.
Transform(p) ==
    LET r == run[p]
    IN  /\ r.pc = "transform"
        /\ IF r.skip_bound_transform
           THEN /\ run' = [run EXCEPT ![p].pc = "links"]
                /\ UNCHANGED layer
           ELSE IF r.srs = None
           THEN /\ run' = [run EXCEPT ![p] = Raise(r, "NameError")]
                /\ UNCHANGED layer
           ELSE LET box == TransformedEnvelope(r.srs[1], r.inst.bbox)
                    srid == EpsgString(Epsg4326)
                IN  /\ layer' = [layer EXCEPT !.srid = srid, !.bbox = box]
                    /\ run' = [run EXCEPT ![p] =
                           Log(Written([r EXCEPT !.pc = "links",
                                                 !.inst = [srid |-> srid,
                                                           bbox |-> box]],
                                       LayerWrite),
                               "bbox")]
        /\ UNCHANGED <<signalVars, mapVars, upload, qgisLayer, fs, links, tile_cache, saves, renames,
                       snapshot, stale>>

\* One update_or_create call on the Layer's resource: the lookup is
\* (resource, name), with link_type too when by_type.
LinkCall(name, by_type, extension, mime, url, link_type) ==
    [lookup |-> IF by_type
                THEN [resource |-> LayerResource, name |-> name,
                      link_type |-> link_type]
                ELSE [resource |-> LayerResource, name |-> name],
     defaults |-> [extension |-> extension, mime |-> mime, url |-> url,
                   link_type |-> link_type]]

ZipLinkName(is_vector_layer) ==
    IF is_vector_layer THEN <<"Zipped Vector Files">> ELSE <<"Zipped All Files">>
WmsLinkName == <<"OGC WMS: ", Workspace, " Service">>
WfsLinkName == <<"OGC WFS: ", Workspace, " Service">>
QgsLinkName == <<"QGIS project file (.qgs)">>
QlrLinkName == <<"QGIS layer file (.qlr)">>

\* The first links with the WFS link decided by the handler's own flag.
FirstLinkCalls_BySniff(is_vector_layer, store_vector) ==
    <<LinkCall(ZipLinkName(is_vector_layer), FALSE, "zip",
               IF is_vector_layer THEN "SHAPE-ZIP" ELSE "ZIP",
               Url("qgis_server:download-zip", LayerName), "data"),
      LinkCall(WmsLinkName, TRUE, "html", "text/html",
               Url("qgis_server:layer-request", LayerName), "OGC:WMS"),
      LinkCall(QgsLinkName, FALSE, "qgs", "application/xml",
               Url("qgis_server:download-qgs", LayerName), "data")>>
    \o (IF is_vector_layer
        THEN <<LinkCall(WfsLinkName, TRUE, "html", "text/html",
                        Url("qgis_server:layer-request", LayerName), "OGC:WFS")>>
        ELSE << >>)
    \o <<LinkCall(QlrLinkName, FALSE, "qlr", "application/xml",
                  Url("qgis_server:download-qlr", LayerName), "data")>>

\* Lines 231-336: the zip, WMS, QGS, WFS and QLR links, in the order of the
\* calls.  is_vector_layer is the handler's flag, store_vector is
\* instance.is_vector().
FirstLinkCalls(is_vector_layer, store_vector) ==
    <<LinkCall(ZipLinkName(is_vector_layer), FALSE, "zip",
               IF is_vector_layer THEN "SHAPE-ZIP" ELSE "ZIP",
               Url("qgis_server:download-zip", LayerName), "data"),
      LinkCall(WmsLinkName, TRUE, "html", "text/html",
               Url("qgis_server:layer-request", LayerName), "OGC:WMS"),
      LinkCall(QgsLinkName, FALSE, "qgs", "application/xml",
               Url("qgis_server:download-qgs", LayerName), "data")>>
    \o (IF store_vector
        THEN <<LinkCall(WfsLinkName, TRUE, "html", "text/html",
                        Url("qgis_server:layer-request", LayerName), "OGC:WFS")>>
        ELSE << >>)
    \o <<LinkCall(QlrLinkName, FALSE, "qlr", "application/xml",
                  Url("qgis_server:download-qlr", LayerName), "data")>>

\* QGISServerLayer.geotiff_format
geotiff_format == {"tif", "tiff"}

\* original_ext.split('.')[-1]
LastPiece(ext) == IF ext = << >> THEN "" ELSE ext[Len(ext)]

\* Lines 374-418: the Tiles, GeoTIFF and Legend links.
SecondLinkCalls(original_ext) ==
    <<LinkCall(<<"Tiles">>, FALSE, "tiles", "image/png",
               Url("tile_url_format", LayerName), "image")>>
    \o (IF LastPiece(original_ext) \in geotiff_format
        THEN <<LinkCall(<<"GeoTIFF">>, FALSE, LastPiece(original_ext), "image/tiff",
                        Url("qgis_server:geotiff", LayerName), "image")>>
        ELSE << >>)
    \o <<LinkCall(<<"Legend">>, FALSE, "png", "image/png",
                  Url("qgis_server:legend", LayerName), "image")>>

\* A run of update_or_create calls made by worker p, going on to label.
MakeLinks(p, calls, label) ==
    LET r == run[p]
        made == UpsertAll(links, calls)
    IN  /\ links' = made.links
        /\ run' = [run EXCEPT ![p] =
               IF made.ok
               THEN Log(Written([r EXCEPT !.pc = label], LinkWrite), "links")
               ELSE Raise(r, "MultipleObjectsReturned")]

\* The first links also written, once, ahead of the reprojection step.
FirstLinks_BeforeBounds(p) ==
    /\ run[p].pc \in {"transform", "links"}
    /\ run[p].pc = "transform" => "links" \notin {run[p].trace[k] : k \in 1..Len(run[p].trace)}
    /\ MakeLinks(p, FirstLinkCalls(run[p].is_vector_layer, layer.store_vector),
                 IF run[p].pc = "transform" THEN "transform" ELSE "project")
    /\ UNCHANGED <<signalVars, mapVars, layer, upload, qgisLayer, fs, tile_cache, saves, renames,
                   snapshot, stale>>

\* Lines 231-336, reached after the reprojection step.
FirstLinks(p) ==
    /\ run[p].pc = "links"
    /\ MakeLinks(p, FirstLinkCalls(run[p].is_vector_layer, layer.store_vector),
                 "project")
    /\ UNCHANGED <<signalVars, mapVars, layer, upload, qgisLayer, fs, tile_cache, saves, renames,
                   snapshot, stale>>

\* The build whose response is checked, a body other than 'OK' being raised
\* as an error.
Project_FatalResponse(p, body, style_fails) ==
    /\ run[p].pc = "project"
    /\ run' = [run EXCEPT ![p] =
           IF body = "OK"
           THEN Log(Log([run[p] EXCEPT !.pc = "tiles_links", !.response = body],
                        "project"),
                    "styles")
           ELSE Raise(Log([run[p] EXCEPT !.response = body], "project"),
                      "BuildError")]
    /\ UNCHANGED <<signalVars, mapVars, layer, upload, qgisLayer, fs, links, tile_cache, saves,
                   renames, snapshot, stale>>

\* Lines 338-372: the project file is built and the style list fetched.  The
\* response body is only logged, and a failing style_list is swallowed.
Project(p, body, style_fails) ==
    LET r == run[p]
    IN  /\ r.pc = "project"
        /\ run' = [run EXCEPT ![p] =
               Log(Log([r EXCEPT !.pc = "tiles_links", !.response = body],
                       "project"),
                   "styles")]
        /\ UNCHANGED <<signalVars, mapVars, layer, upload, qgisLayer, fs, links, tile_cache, saves,
                       renames, snapshot, stale>>

SecondLinks(p) ==
    /\ run[p].pc = "tiles_links"
    /\ MakeLinks(p, SecondLinkCalls(SplitextExt(run[p].path)), "thumbnail")
    /\ UNCHANGED <<signalVars, mapVars, layer, upload, qgisLayer, fs, tile_cache, saves, renames,
                   snapshot, stale>>

\* Lines 420-425: the thumbnail task is queued and the attributes are set.
Thumbnail(p) ==
    LET r == run[p]
    IN  /\ r.pc = "thumbnail"
        /\ run' = [run EXCEPT ![p] =
               Log(Log([r EXCEPT !.pc = "xml"], "thumbnail"), "attributes")]
        /\ UNCHANGED <<signalVars, mapVars, layer, upload, qgisLayer, fs, links, tile_cache, saves,
                       renames, snapshot, stale>>

\* shutil.rmtree of tiles_directory/<base name of the mirrored file>
TileCachePath(base_layer_path) == Basename(SplitextRoot(base_layer_path))

\* shutil.rmtree(os.path.join(tiles_directory, basename)): joining the empty
\* name gives tiles_directory itself, and the whole tree goes.
Rmtree(cache, basename) ==
    IF basename = << >> THEN {} ELSE cache \ {basename}

\* The tile cache removed on every save.
RemoveTileCache_EverySave(cache, overwrite, base_layer_path) ==
    Rmtree(cache, TileCachePath(base_layer_path))

\* Lines 459-469: on overwrite, rmtree of the layer's tile-cache
\* subdirectory; the OSError of a missing directory is swallowed.
RemoveTileCache(cache, overwrite, base_layer_path) ==
    IF overwrite THEN Rmtree(cache, TileCachePath(base_layer_path)) ELSE cache

\* Lines 427-469: the XML sidecars are rewritten (a TypeError or
\* AttributeError of update_xml is swallowed) and, on overwrite, the tile
\* cache of the layer is removed.  The run is over.
Finish(p, xml_fails) ==
    LET r == run[p]
    IN  /\ r.pc = "xml"
        /\ xml_fails => \E f \in fs :
               f.path = WithExt(SplitextRoot(r.base_layer_path), "xml")
        /\ tile_cache' = RemoveTileCache(tile_cache, r.overwrite, r.base_layer_path)
        /\ run' = [run EXCEPT ![p] =
               IF tile_cache' # tile_cache
               THEN Log(Log([r EXCEPT !.pc = "done"], "xml"), "rmtree")
               ELSE Log([r EXCEPT !.pc = "done"], "xml")]
        /\ snapshot' = Some(Observable)
        /\ UNCHANGED <<signalVars, mapVars, layer, upload, qgisLayer, fs, links, saves, renames, stale>>

\* ------------------------------------------------------------------------
\* QGISServerLayer.delete_qgis_layer and the post-delete hook
\* ------------------------------------------------------------------------
RECURSIVE RemoveFormats(_, _, _)
\* The loop of delete_qgis_layer from the i-th accepted extension on:
\* os.remove of base_name + '.' + ext when that file exists.
RemoveFormats(files, base_name, i) ==
    IF i > Len(accepted_format) THEN files
    ELSE RemoveFormats({f \in files : f.path # WithExt(base_name, accepted_format[i])},
                       base_name, i + 1)

\* delete_qgis_layer that does not split the extension off.
delete_qgis_layer_KeepsExtension(files, base_layer_path) ==
    RemoveFormats(files, base_layer_path, 1)

\* delete_qgis_layer on a record with this base_layer_path.
delete_qgis_layer(files, base_layer_path) ==
    RemoveFormats(files, SplitextRoot(base_layer_path), 1)

\* Number of delete_qgis_layer calls made on one deleted instance.
MaxDeleteCalls == 2

\* The QGISServerLayer row is deleted (directly, or by the cascade from its
\* Layer): qgis_server_layer_post_delete runs delete_qgis_layer on the
\* instance.
DeleteQgisLayer ==
    /\ \A p \in Procs : Ended(p)
    /\ qgisLayer # None
    /\ qgisLayer' = None
    /\ fs' = delete_qgis_layer(fs, qgisLayer[1].base_layer_path)
    /\ stale' = Some([base_layer_path |-> qgisLayer[1].base_layer_path, calls |-> 1])
    /\ snapshot' = None
    /\ UNCHANGED <<signalVars, mapVars, layer, upload, links, tile_cache, run, saves, renames>>

\* delete_qgis_layer is called once more on the instance already deleted.
DeleteAgain ==
    /\ \A p \in Procs : Ended(p)
    /\ stale # None
    /\ stale[1].calls < MaxDeleteCalls
    /\ fs' = delete_qgis_layer(fs, stale[1].base_layer_path)
    /\ stale' = Some([stale[1] EXCEPT !.calls = @ + 1])
    /\ snapshot' = None
    /\ UNCHANGED <<signalVars, mapVars, layer, upload, qgisLayer, links, tile_cache, run, saves, renames>>

\* ------------------------------------------------------------------------
\* The render service caches tiles of the layer
\* ------------------------------------------------------------------------
\* Tiles served for the layer are kept under tiles_directory/<base name of
\* the mirrored file>.  Only the caches a later save can meet are followed.
CacheTiles ==
    /\ \A p \in Procs : Ended(p)
    /\ saves < MaxSaves
    /\ qgisLayer # None
    /\ qgisLayer[1].base_layer_path # << >>
    /\ Basename(qgis_layer_path_prefix(qgisLayer[1].base_layer_path)) \notin tile_cache
    /\ tile_cache' = tile_cache \cup
           {Basename(qgis_layer_path_prefix(qgisLayer[1].base_layer_path))}
    /\ UNCHANGED <<signalVars, mapVars, layer, upload, qgisLayer, fs, links, run, saves, renames,
                   snapshot, stale>>

\* ------------------------------------------------------------------------
\* The content system renames the upload's files
\* ------------------------------------------------------------------------
\* Only the renames made between two saves of a recorded Layer are followed:
\* one made before the first save is an upload stored under the other name.
RenameUpload(stem) ==
    /\ \A p \in Procs : Ended(p)
    /\ upload # None
    /\ renames < MaxRenames
    /\ saves < MaxSaves
    /\ qgisLayer # None
    /\ stem # upload[1].stem
    /\ upload' = Some([upload[1] EXCEPT !.stem = stem])
    /\ renames' = renames + 1
    /\ snapshot' = None
    /\ UNCHANGED <<signalVars, mapVars, layer, qgisLayer, fs, links, tile_cache, run, saves, stale>>

\* ------------------------------------------------------------------------
\* Saves made one after the other by one worker
\* ------------------------------------------------------------------------
\* The content system saves the Layer: post_save is sent for Layer, and the
\* hook attached for it is run.
Save ==
    /\ \A p \in Procs : Ended(p)
    /\ LiveReceivers(receivers["post_save"], "Layer") = <<"qgis_server_post_save">>
    /\ \E overwrite \in BOOLEAN : StartSave(1, overwrite)

Handler(p) ==
    \/ \E ioerror \in BOOLEAN : Mirror(p, ioerror)
    \/ SaveRecord(p)
    \/ Probe(p)
    \/ Qlr(p)
    \/ Transform(p)
    \/ FirstLinks(p)
    \/ \E body \in {"OK", "ERROR"}, style_fails \in BOOLEAN :
           Project(p, body, style_fails)
    \/ SecondLinks(p)
    \/ Thumbnail(p)
    \/ \E xml_fails \in BOOLEAN : Finish(p, xml_fails)

Next ==
    \/ Save
    \/ \E p \in Procs : Handler(p)
    \/ DeleteQgisLayer
    \/ DeleteAgain
    \/ CacheTiles
    \/ \E stem \in Stems : RenameUpload(stem)

Spec == Init /\ [][Next]_vars

\* ------------------------------------------------------------------------
\* Properties of the Layer handlers
\* ------------------------------------------------------------------------
Range(seq) == {seq[k] : k \in 1..Len(seq)}
Paths(files) == {f.path : f \in files}
LinksNamed(name) == {l \in links : l.resource = LayerResource /\ l.name = name}

\* C1: a run of the Layer post-save handler that completes right after
\* another completed run, with no change of the files in between, leaves
\* the srid, the bbox, the base_layer_path, the mirrored files and the Link
\* records as the earlier run left them.
C1_SaveIsIdempotent ==
    \A p \in Procs :
        (run[p].pc = "done" /\ run[p].before # None /\ snapshot # None)
            => snapshot = run[p].before

\* The link names a completed run of worker p must have left.
ExpectedLinkNames(p) ==
    {ZipLinkName(run[p].is_vector_layer), WmsLinkName, QgsLinkName, QlrLinkName,
     <<"Tiles">>, <<"Legend">>}
    \cup (IF layer.store_vector THEN {WfsLinkName} ELSE {})
    \cup (IF upload[1].ext \in {"tif", "tiff"} THEN {<<"GeoTIFF">>} ELSE {})

\* C2: after every completed save there is exactly one Link row for each
\* named link of the Layer, and no two rows of the table ever share the
\* identity (resource, name, link_type).
C2_OneLinkPerName ==
    /\ \A p \in Procs : run[p].pc = "done" =>
           \A name \in ExpectedLinkNames(p) : Cardinality(LinksNamed(name)) = 1
    /\ \A l1, l2 \in links :
           (l1.resource = l2.resource /\ l1.name = l2.name
               /\ l1.link_type = l2.link_type) => l1 = l2

\* C2 witness: a second save has completed with no file change since the
\* first, and the links are there.
C2_Witness ==
    /\ run[1].pc = "done" /\ run[1].before # None /\ saves = 2
    /\ Cardinality(links) >= 6

\* C3: no run of the Layer post-save handler ends with an error raised to
\* the save call.
C3_NoErrorEscapes == \A p \in Procs : run[p].pc # "raised"

\* C4: a run in which a copy failed with IOError does not end there: the
\* failure is logged and no error is raised by it.
C4_CopyFailureAbsorbed ==
    \A p \in Procs :
        "copy_failed" \in Range(run[p].trace) => run[p].pc # "raised"

\* C5: once the save that created the record is over, no step changes the
\* record's base_layer_path for as long as the record exists.
C5_BasePathSetAtCreationOnly ==
    [][(/\ qgisLayer # None
        /\ qgisLayer' # None
        /\ ~ \E p \in Procs : run[p].created /\ ~Ended(p))
            => qgisLayer' = qgisLayer]_vars

\* C5 witness: a later save has completed after the upload was renamed, and
\* the record still has the path the first upload gave it.
C5_Witness ==
    /\ run[1].pc = "done" /\ ~run[1].created
    /\ upload[1].stem # FirstStem
    /\ qgisLayer = Some([base_layer_path |->
           <<"qgis_layer", "/", FirstStem, ".", upload[1].ext>>])

\* Where the claim places the mirrored copy of the sibling of extension ext.
MirrorTarget(p, ext) ==
    IF run[p].created
    THEN <<"qgis_layer", "/", upload[1].stem, ".", ext>>
    ELSE SplitextRoot(qgisLayer[1].base_layer_path) \o <<".", ext>>

\* C6: every copy of the mirroring loop writes the sibling, and nothing
\* else, to the render directory under the upload's file name when the run
\* created the record, and to the record's base path with the sibling's
\* extension otherwise; when the loop ends without a failed copy, every
\* existing sibling is there.
C6_MirrorDestinations ==
    [][\A p \in Procs : run[p].pc = "mirror" =>
          /\ fs' # fs =>
                LET written == [path |-> MirrorTarget(p, accepted_format[run[p].i]),
                                content |-> upload[1].stem]
                IN  /\ written \in fs'
                    /\ \A f \in fs' : f = written \/ f \in fs
                    /\ \A f \in fs : f.path # written.path => f \in fs'
          /\ run'[p].pc = "save_record" =>
                \A ext \in upload[1].siblings :
                    [path |-> MirrorTarget(p, ext), content |-> upload[1].stem] \in fs'
      ]_vars

\* C6 witness: the upload was renamed, a later save has mirrored it, and the
\* files of the new upload lie under the first name; none lies under the
\* new one.
C6_Witness ==
    /\ run[1].pc = "save_record" /\ ~run[1].created
    /\ upload[1].stem = "b"
    /\ [path |-> <<"qgis_layer", "/", "a", ".", "shp">>, content |-> "b"] \in fs
    /\ [path |-> <<"qgis_layer", "/", "a", ".", "prj">>, content |-> "b"] \in fs
    /\ \A f \in fs : f.path[3] # "b"

\* The files the claim has delete_qgis_layer remove.
DeleteTargets(base_layer_path) ==
    {SplitextRoot(base_layer_path) \o <<".", accepted_format[k]>> :
        k \in 1..Len(accepted_format)}

\* C7: a call of delete_qgis_layer leaves no file base_name.ext of an
\* accepted extension, removes nothing else, and changes nothing when those
\* files are already gone.
C7_DeleteRemovesMirroredFiles ==
    [][stale' # stale =>
          LET targets == DeleteTargets(stale'[1].base_layer_path)
          IN  /\ \A f \in fs' : f.path \notin targets
              /\ \A f \in fs : f.path \notin targets => f \in fs'
              /\ fs' \subseteq fs
              /\ (Paths(fs) \cap targets = {}) => fs' = fs
      ]_vars

\* C7 witness: the files a save mirrored were removed by the deletion of
\* the record, and delete_qgis_layer was called again on the instance.
C7_Witness ==
    /\ stale # None /\ stale[1].calls = 2
    /\ stale[1].base_layer_path = <<"qgis_layer", "/", "a", ".", "shp">>
    /\ run[1].pc = "done" /\ run[1].created /\ "copy" \in Range(run[1].trace)
    /\ fs = {}

\* The run of worker p is past the reprojection step of lines 214-229.
PastTransform(p) ==
    run[p].pc \in {"links", "project", "tiles_links", "thumbnail", "xml", "done"}

\* The dataset of worker p's run is not a QLR, was probed as vector or
\* raster, and the probe identified an EPSG code.
DetectedEpsg(p) ==
    LET d == upload[1].dataset
    IN  /\ ~d.sniff.is_qlr
        /\ d.sniff.is_vector \/ d.sniff.is_raster
        /\ d.probe.outcome = "epsg"

\* box is the envelope of the corners of b transformed from the reference
\* of this EPSG code to EPSG:4326.
IsForwardEnvelope(box, code, b) ==
    LET pts == {TransformPoint(code, pt) : pt \in FromBbox(b)}
    IN  /\ \A pt \in pts : box[1] <= pt[1] /\ pt[1] <= box[3]
                           /\ box[2] <= pt[2] /\ pt[2] <= box[4]
        /\ \E pt \in pts : pt[1] = box[1]
        /\ \E pt \in pts : pt[1] = box[3]
        /\ \E pt \in pts : pt[2] = box[2]
        /\ \E pt \in pts : pt[2] = box[4]

\* C11: once a run on a non-QLR dataset whose detected EPSG string differs
\* from the srid the Layer had when the run began is past the reprojection
\* step, the Layer's srid is EPSG:4326 and its bbox is the envelope of the
\* bbox it had, transformed from the detected reference to EPSG:4326.
C11_DifferingEpsgIsReprojected ==
    \A p \in Procs :
        (/\ PastTransform(p)
         /\ DetectedEpsg(p)
         /\ EpsgString(upload[1].dataset.probe.code) # run[p].entry.srid)
            => /\ layer.srid = <<"EPSG", 4326>>
               /\ IsForwardEnvelope(layer.bbox, upload[1].dataset.probe.code,
                                    run[p].entry.bbox)

\* C11 witness: a save of a Layer stored as EPSG:4326 with bbox
\* (-8, 4, 12, 16), whose dataset is detected as EPSG:3857, has completed and
\* the Layer has the transformed envelope.
C11_Witness ==
    /\ run[1].pc = "done"
    /\ DetectedEpsg(1)
    /\ upload[1].dataset.probe.code = 3857
    /\ run[1].entry = [srid |-> <<"EPSG", 4326>>, bbox |-> <<-8, 4, 12, 16>>]
    /\ layer.srid = <<"EPSG", 4326>>
    /\ layer.bbox = <<-6, 2, 4, 8>>

\* C12: throughout a run on a vector dataset whose detected EPSG string
\* equals the srid the Layer had when the run began, no bounds transform is
\* made and the Layer's srid and bbox stay what they were.
C12_MatchingEpsgLeavesBounds ==
    \A p \in Procs :
        (/\ run[p].pc \notin {"idle", "returned"}
         /\ DetectedEpsg(p)
         /\ upload[1].dataset.sniff.is_vector
         /\ EpsgString(upload[1].dataset.probe.code) = run[p].entry.srid)
            => /\ "bbox" \notin Range(run[p].trace)
               /\ layer.srid = run[p].entry.srid
               /\ layer.bbox = run[p].entry.bbox

\* C12 witness: a save of a Layer stored as EPSG:3857 whose vector dataset is
\* detected as EPSG:3857 has completed, and the bbox is the one it had.
C12_Witness ==
    /\ run[1].pc = "done"
    /\ DetectedEpsg(1)
    /\ upload[1].dataset.sniff.is_vector
    /\ upload[1].dataset.probe.code = 3857
    /\ run[1].entry.srid = <<"EPSG", 3857>>
    /\ layer.srid = <<"EPSG", 3857>>
    /\ layer.bbox = <<-8, 4, 12, 16>>

\* C13: in a run on a QLR base file, skip_bound_transform is true when the
\* reprojection step is reached and no bounds transform is made, whatever
\* the stored srid and the sniffing results are; from there on the run's
\* vector and raster flags are those of the type the QLR declares, and the
\* zip link it writes is named after that type.
C13_QlrSkipsTransformAndSetsType ==
    \A p \in Procs :
        run[p].is_qlr_layer =>
            LET declared == upload[1].dataset.qlr_type
            IN  /\ run[p].pc = "transform" => run[p].skip_bound_transform
                /\ "bbox" \notin Range(run[p].trace)
                /\ run[p].error # "NameError"
                /\ (run[p].pc = "transform" \/ PastTransform(p)) =>
                       /\ run[p].is_vector_layer = (declared = "vector")
                       /\ run[p].is_raster_layer = (declared = "raster")
                /\ run[p].pc \in {"project", "tiles_links", "thumbnail", "xml", "done"} =>
                       LinksNamed(IF declared = "vector"
                                  THEN <<"Zipped Vector Files">>
                                  ELSE <<"Zipped All Files">>) # {}

\* C13 witness: a save of a QLR file sniffed as vector that declares a
\* raster has completed, on a Layer whose stored srid was not EPSG:4326; the
\* zip link is the one of a non-vector layer.
C13_Witness ==
    /\ run[1].pc = "done"
    /\ run[1].is_qlr_layer
    /\ upload[1].dataset.sniff.is_vector
    /\ upload[1].dataset.qlr_type = "raster"
    /\ run[1].entry.srid = <<"EPSG", 3857>>
    /\ LinksNamed(<<"Zipped All Files">>) # {}
    /\ LinksNamed(<<"Zipped Vector Files">>) = {}

\* C14: a Layer that is_vector() does not classify as vector never has an
\* 'OGC WFS: <workspace> Service' Link, and a Layer it classifies as vector
\* has exactly one after every completed save.
C14_WfsLinkIffVector ==
    /\ ~layer.store_vector => LinksNamed(<<"OGC WFS: ", "geonode", " Service">>) = {}
    /\ \A p \in Procs :
           (run[p].pc = "done" /\ layer.store_vector) =>
               \E l \in links :
                   /\ LinksNamed(<<"OGC WFS: ", "geonode", " Service">>) = {l}
                   /\ l.link_type = "OGC:WFS"

\* C14 witness: a Layer that is not a vector for is_vector(), though its
\* dataset is sniffed as one, has been saved twice and has its other links
\* but no WFS link.
C14_Witness ==
    /\ run[1].pc = "done" /\ saves = 2 /\ run[1].before # None
    /\ ~layer.store_vector
    /\ run[1].is_vector_layer
    /\ LinksNamed(<<"OGC WMS: ", "geonode", " Service">>) # {}
    /\ LinksNamed(<<"OGC WFS: ", "geonode", " Service">>) = {}

\* C15: the step that ends a run with overwrite true leaves no tile-cache
\* subdirectory named after the record's mirrored base file (with an empty
\* base_layer_path that name is empty, and nothing is left under
\* tiles_directory); every other step of a run, and every step of a run
\* with overwrite false, leaves the tile cache as it is.
C15_TileCacheRemovedOnOverwrite ==
    [][\A p \in Procs : run'[p] # run[p] =>
          IF run[p].pc = "xml" /\ run[p].overwrite
          THEN /\ run'[p].pc = "done"
               /\ tile_cache' \subseteq tile_cache
               /\ IF qgisLayer[1].base_layer_path = << >>
                  THEN tile_cache' = {}
                  ELSE /\ <<qgisLayer[1].base_layer_path[3]>> \notin tile_cache'
                       /\ \A d \in tile_cache :
                              d # <<qgisLayer[1].base_layer_path[3]>> =>
                                  d \in tile_cache'
          ELSE tile_cache' = tile_cache
      ]_vars

\* C15 witness: a save with overwrite true has completed on a Layer whose
\* tile-cache subdirectory existed, and the subdirectory is gone.
C15_Witness ==
    /\ run[1].pc = "done" /\ run[1].overwrite
    /\ "rmtree" \in Range(run[1].trace)
    /\ qgisLayer = Some([base_layer_path |-> <<"qgis_layer", "/", "a", ".", "shp">>])
    /\ tile_cache = {<<"other">>}

\* C17: a save of a Layer that has no base file is one step that leaves the
\* QGISServerLayer table, the render directory, the Links, the Layer row and
\* the tile cache as they were, and ends the run returned with nothing
\* copied, built or queued.
C17_NoBaseFileNoSideEffects ==
    [][(saves' # saves /\ upload = None) =>
          /\ qgisLayer' = qgisLayer
          /\ fs' = fs
          /\ links' = links
          /\ layer' = layer
          /\ tile_cache' = tile_cache
          /\ \A p \in Procs : run'[p] # run[p] =>
                 /\ run'[p].pc = "returned"
                 /\ run'[p].trace = << >>
      ]_vars

\* C17 witness: a Layer without base file has been saved twice, and there
\* is no record, no mirrored file and no Link.
C17_Witness ==
    /\ upload = None
    /\ saves = 2
    /\ run[1].pc = "returned" /\ run[1].trace = << >>
    /\ qgisLayer = None /\ fs = {} /\ links = {}

\* C18: in the sequence of events of one run, every copy of the mirroring
\* loop (made or failed) comes before the project-file build, and every
\* update of srid and bbox (by the reprojection, or from a QLR) comes before
\* the first Link upsert.
C18_MirrorThenBuildBoundsThenLinks ==
    \A p \in Procs :
        LET t == run[p].trace
        IN  \A j \in 1..Len(t) :
                /\ t[j] = "project" =>
                       \A i \in j..Len(t) : t[i] \notin {"copy", "copy_failed"}
                /\ t[j] = "links" =>
                       \A i \in j..Len(t) : t[i] \notin {"bbox", "qlr_info"}

\* C18 witness: a completed run that copied the two files of a shapefile
\* upload, reprojected the bounds, wrote the links and built the project.
C18_Witness ==
    /\ run[1].pc = "done"
    /\ run[1].trace = <<"copy", "copy", "record", "bbox", "links", "project",
                        "styles", "links", "thumbnail", "attributes", "xml">>

\* C20: a run that has received the response of the project build, whatever
\* its body, raises no error from there on, and when it is complete it has
\* made, after the build and in this order, the style fetch, the Tiles and
\* Legend links, the thumbnail task and the attribute extraction.
C20_BuildResponseNotFatal ==
    \A p \in Procs :
        run[p].response # "" =>
            /\ run[p].pc # "raised"
            /\ run[p].pc = "done" =>
                   /\ LinksNamed(<<"Tiles">>) # {}
                   /\ LinksNamed(<<"Legend">>) # {}
                   /\ \E k \in 1..Len(run[p].trace) :
                          /\ run[p].trace[k] = "project"
                          /\ k + 5 <= Len(run[p].trace)
                          /\ SubSeq(run[p].trace, k + 1, k + 5) =
                                 <<"styles", "links", "thumbnail", "attributes", "xml">>

\* C20 witness: a run whose project build answered with a body other than
\* 'OK' is complete, with its Tiles and Legend links and its thumbnail task.
C20_Witness ==
    /\ run[1].pc = "done"
    /\ run[1].response = "ERROR"
    /\ LinksNamed(<<"Tiles">>) # {} /\ LinksNamed(<<"Legend">>) # {}
    /\ "thumbnail" \in Range(run[1].trace)
    /\ "attributes" \in Range(run[1].trace)

\* ------------------------------------------------------------------------
\* Maps
\* ------------------------------------------------------------------------
\* Number of times the Map is saved in one behaviour.
MaxMapSaves == 3

\* Alternates of the Layers that can exist, and the names a MapLayer row
\* can carry: those, and the name of a remote tile service.
LayerAlternates == {"geonode:a", "geonode:b"}
MapLayerNames == LayerAlternates \cup {"osm"}

\* qgis_server_pre_save_maplayer: a MapLayer whose name is the alternate of
\* an existing Layer is flagged local before it is stored.
qgis_server_pre_save_maplayer(row) ==
    IF row.name \in layerTable THEN [row EXCEPT !.local = TRUE] ELSE row

\* The MapLayer row a Map editor stores under a name, with the local flag
\* the editor's configuration carries: the tile service is a background
\* layer of either visibility, whose URL has a subdomain token.
NewMapLayer(name, visibility, local) ==
    IF name \in LayerAlternates
    THEN [name |-> name, group |-> "", visibility |-> visibility,
          local |-> local, ows_url |-> <<"http://qgis/", name>>]
    ELSE [name |-> name, group |-> "background", visibility |-> visibility,
          local |-> local, ows_url |-> <<"http://", "{s}.", "tile.osm.org/">>]

\* A Layer is stored in the content system.
CreateLayer(alt) ==
    /\ alt \notin layerTable
    /\ layerTable' = layerTable \cup {alt}
    /\ UNCHANGED <<signalVars, layerVars, links, recorded, mapLayers, qgisMap, mapBounds,
                   mapRun, mapSaves>>

\* The Layer post-save handler has given a Layer its QGISServerLayer row.
RecordLayer(alt) ==
    /\ alt \in layerTable \ recorded
    /\ recorded' = recorded \cup {alt}
    /\ UNCHANGED <<signalVars, layerVars, links, layerTable, mapLayers, qgisMap, mapBounds,
                   mapRun, mapSaves>>

\* A MapLayer row is saved for the Map (the pre-save hook runs on it).
AddMapLayer(name, visibility, local) ==
    /\ \A row \in mapLayers : row.name # name
    /\ mapLayers' = mapLayers \cup
           {qgis_server_pre_save_maplayer(NewMapLayer(name, visibility, local))}
    /\ UNCHANGED <<signalVars, layerVars, links, layerTable, recorded, qgisMap, mapBounds,
                   mapRun, mapSaves>>

\* Map.local_layers: the Layers whose alternate is the name of a MapLayer
\* row of the Map.
local_layers(rows) == {alt \in layerTable : \E row \in rows : row.name = alt}

\* The update that only ever sets the flag.
UpdateLocal_OnlySetsTrue(rows, local_layers_name) ==
    {[row EXCEPT !.local = (@ \/ row.name \in local_layers_name)] : row \in rows}

\* Lines 497-502: every MapLayer row is local exactly when its name is the
\* alternate of a local layer.
UpdateLocal(rows, local_layers_name) ==
    {[row EXCEPT !.local = (row.name \in local_layers_name)] : row \in rows}

\* The working list without the check of the QGISServerLayer row.
WorkingLayers_Unchecked(locals, with_record) == locals

\* Lines 504-516: the local layers that have a QGISServerLayer row.
WorkingLayers(locals, with_record) == {l \in locals : l \in with_record}

\* One update_or_create call on the Map's resource.
MapLinkCall(name, extension, mime, url) ==
    [lookup |-> [resource |-> MapResource, name |-> name],
     defaults |-> [extension |-> extension, mime |-> mime, url |-> url,
                   link_type |-> "data"]]

\* Lines 522-579: the download, Web Map Context and QLR links of the Map.
MapLinkCalls ==
    <<MapLinkCall(<<"Download Data Layers">>, "html", "text/html",
                  Url("map_download", "mapid")),
      MapLinkCall(<<"Download Web Map Context">>, "wmc.xml", "application/xml",
                  Url("map_wmc", "mapid")),
      MapLinkCall(<<"QGIS layer file (.qlr)">>, "qlr", "application/xml",
                  Url("map_download_qlr", "mapid"))>>

\* Lines 596-599: MapLayer.objects.filter(map=instance, group='background',
\* visibility=True).first(), as an optional row.
BasemapMapLayer(rows) ==
    LET found == {row \in rows : row.group = "background" /\ row.visibility}
    IN  IF found = {} THEN None ELSE Some(CHOOSE row \in found : TRUE)

RECURSIVE Remove(_, _)
\* str.replace(token, ''): the sequence without the token.
Remove(url, token) ==
    IF url = << >> THEN << >>
    ELSE IF Head(url) = token THEN Remove(Tail(url), token)
    ELSE <<Head(url)>> \o Remove(Tail(url), token)

\* getattr(instance, 'overwrite', False)
GetOverwrite(attr) == IF attr = None THEN FALSE ELSE attr[1]

\* The overwrite flag taken from the attribute alone.
EffectiveOverwrite_AttributeOnly(created, overwrite) == overwrite

\* Line 614: overwrite = created or overwrite
EffectiveOverwrite(created, overwrite) == created \/ overwrite

\* qgis_server_post_save_map.  overwrite_attr is the transient overwrite
\* attribute of the instance: None when the caller set none.
MapSave(overwrite_attr) ==
    LET rows == UpdateLocal(mapLayers, local_layers(mapLayers))
        layers == WorkingLayers(local_layers(mapLayers), recorded)
        made == UpsertAll(links, MapLinkCalls)
        basemap_maplayer == BasemapMapLayer(rows)
        started == [IdleMapRun EXCEPT !.had_record = qgisMap,
                                      !.relabelled =
                                          {row.name : row \in mapLayers \ rows},
                                      !.overwrite_attr = overwrite_attr,
                                      !.working = layers]
    IN  /\ mapSaves < MaxMapSaves
        /\ mapSaves' = mapSaves + 1
        /\ mapLayers' = rows
        /\ IF layers = {}
           THEN \* lines 518-520
                /\ mapRun' = [started EXCEPT !.outcome = "returned"]
                /\ UNCHANGED <<links, mapBounds, qgisMap>>
           ELSE IF ~made.ok
           THEN /\ mapRun' = [started EXCEPT !.outcome = "raised"]
                /\ links' = made.links
                /\ UNCHANGED <<mapBounds, qgisMap>>
           ELSE IF basemap_maplayer = None
           THEN \* line 601: None has no attribute ows_url
                /\ mapRun' = [started EXCEPT !.outcome = "raised"]
                /\ links' = made.links
                /\ mapBounds' = layers
                /\ UNCHANGED qgisMap
           ELSE LET tile_url == Remove(basemap_maplayer[1].ows_url, "{s}.")
                    created == ~qgisMap
                    overwrite == EffectiveOverwrite(created,
                                                    GetOverwrite(overwrite_attr))
                IN  /\ links' = made.links
                    /\ mapBounds' = layers
                    /\ qgisMap' = TRUE
                    /\ mapRun' = [started EXCEPT
                           !.outcome = "done",
                           !.created = created,
                           !.basemap = Some(tile_url),
                           !.builds = <<[layers |-> layers, overwrite |-> overwrite,
                                         basemap |-> tile_url]>>,
                           !.styled = layers,
                           !.thumbnails = <<[overwrite |-> TRUE]>>]
        /\ UNCHANGED <<signalVars, layerVars, layerTable, recorded>>

\* The layer-side state while only the Map is looked at.
NoLayerActivity ==
    /\ layer = [srid |-> EpsgString(Epsg4326), bbox |-> <<0, 0, 0, 0>>,
                store_vector |-> FALSE]
    /\ upload = None
    /\ qgisLayer = None
    /\ fs = {}
    /\ links = {}
    /\ tile_cache = {}
    /\ run = [p \in Procs |-> IdleRun]
    /\ saves = 0
    /\ renames = 0
    /\ snapshot = None
    /\ stale = None

InitMap == NoMap /\ NoLayerActivity /\ HooksAttached

NextMap ==
    \/ \E alt \in LayerAlternates : CreateLayer(alt)
    \/ \E alt \in LayerAlternates : RecordLayer(alt)
    \/ \E name \in MapLayerNames, visibility \in BOOLEAN, local \in BOOLEAN :
           AddMapLayer(name, visibility, local)
    \/ \E attr \in {None, Some(TRUE), Some(FALSE)} : MapSave(attr)

SpecMap == InitMap /\ [][NextMap]_vars

\* ------------------------------------------------------------------------
\* Properties of the Map handler
\* ------------------------------------------------------------------------
\* The Map has no local layer with a QGISServerLayer row.
NoRecordedLocalLayer ==
    \A row \in mapLayers : ~(row.name \in layerTable /\ row.name \in recorded)

\* C8: a save of a Map none of whose local layers has a QGISServerLayer row
\* creates no Link and no QGISServerMap row, builds no project file and
\* queues no thumbnail.
C8_EmptyWorkingListDoesNothing ==
    [][(mapSaves' # mapSaves /\ NoRecordedLocalLayer) =>
          /\ links' = links
          /\ qgisMap' = qgisMap
          /\ mapRun'.builds = << >>
          /\ mapRun'.thumbnails = << >>
          /\ mapRun'.outcome = "returned"
      ]_vars

\* C8 witness: a Map with MapLayer rows naming existing Layers, none of
\* which has a record, has been saved.
C8_Witness ==
    /\ mapRun.outcome = "returned"
    /\ \E row \in mapLayers : row.name \in layerTable
    /\ NoRecordedLocalLayer
    /\ links = {} /\ ~qgisMap

C10_MissingBasemapIsSkipped ==
    (mapRun.working # {} /\ mapRun.basemap = None) =>
        /\ mapRun.outcome = "done"
        /\ Len(mapRun.builds) = 1
        /\ mapRun.styled = mapRun.working
        /\ Len(mapRun.thumbnails) = 1

\* C19: every run of the Map handler, whichever way it ends, leaves the
\* MapLayer rows of the Map as they were but for their local flag, which is
\* true exactly for the rows whose name is the alternate of one of the
\* Map's local layers.
C19_LocalFlagFollowsLocalLayers ==
    [][mapSaves' # mapSaves =>
          /\ \A row \in mapLayers' :
                 row.local = (\E alt \in layerTable :
                                  /\ alt = row.name
                                  /\ \E other \in mapLayers : other.name = alt)
          /\ {[row EXCEPT !.local = FALSE] : row \in mapLayers'} =
                 {[row EXCEPT !.local = FALSE] : row \in mapLayers}
      ]_vars

\* C19 witness: a run that exited early on an empty working list has
\* switched on the flag of a row naming a Layer stored after the row, and
\* switched off the flag of the remote tile service's row.
C19_Witness ==
    /\ mapRun.outcome = "returned"
    /\ mapRun.relabelled = {"geonode:a", "osm"}
    /\ \E row \in mapLayers : row.name = "geonode:a" /\ row.local
    /\ \E row \in mapLayers : row.name = "osm" /\ ~row.local

\* ------------------------------------------------------------------------
\* Start-up: registration of the hooks, and the signals the models send
\* ------------------------------------------------------------------------
\* Number of times start-up calls register_qgis_server_signals.
MaxRegistrations == 3

\* Lines 655-683: the hooks are connected when the backend is QGIS Server.
register_qgis_server_signals ==
    /\ registrations < MaxRegistrations
    /\ registrations' = registrations + 1
    /\ receivers' = IF backend THEN ConnectAll(receivers, Hooks) ELSE receivers
    /\ UNCHANGED <<backend, dispatched, layerVars, links, mapVars>>

\* A model sends one of its signals: every receiver connected for that
\* sender is called.
Send(signal, sender) ==
    /\ dispatched' = Some([signal |-> signal, sender |-> sender,
                           called |-> LiveReceivers(receivers[signal], sender)])
    /\ UNCHANGED <<backend, receivers, registrations, layerVars, links, mapVars>>

InitSignals ==
    /\ NoMap
    /\ NoLayerActivity
    /\ backend \in BOOLEAN
    /\ receivers = NoReceivers
    /\ registrations = 0
    /\ dispatched = None

NextSignals ==
    \/ register_qgis_server_signals
    \/ \E signal \in Signals, sender \in Senders : Send(signal, sender)

SpecSignals == InitSignals /\ [][NextSignals]_vars

\* The number of hooks attached to a signal for a sender.
Attached(signal, sender) ==
    Cardinality({k \in 1..Len(receivers[signal]) :
                    receivers[signal][k].sender = sender})

\* The six (event, model) pairs the hooks are for.
HookedPairs ==
    {<<"pre_save", "Layer">>, <<"pre_delete", "Layer">>, <<"post_save", "Layer">>,
     <<"pre_save", "MapLayer">>, <<"post_save", "Map">>,
     <<"post_delete", "QGISServerLayer">>}

\* C16: with the backend inactive no hook is ever attached; with it active,
\* after one call of register_qgis_server_signals or more, each of the six
\* (event, model) pairs has exactly one hook attached and no other pair has
\* any, so that a signal sent calls one hook at most.
C16_OneHookPerPairWhenActive ==
    /\ ~backend => \A signal \in Signals : receivers[signal] = << >>
    /\ (backend /\ registrations >= 1) =>
           \A signal \in Signals, sender \in Senders :
               Attached(signal, sender) =
                   IF <<signal, sender>> \in HookedPairs THEN 1 ELSE 0
    /\ (backend /\ registrations = 0) =>
           \A signal \in Signals : receivers[signal] = << >>
    /\ dispatched # None => Len(dispatched[1].called) <= 1

\* C16 witness: register_qgis_server_signals has been called three times on
\* an active backend, and a save of a Layer then called the Layer post-save
\* hook, once.
C16_Witness ==
    /\ backend /\ registrations = 3
    /\ Len(receivers["post_save"]) = 2
    /\ dispatched = Some([signal |-> "post_save", sender |-> "Layer",
                          called |-> <<"qgis_server_post_save">>])

\* ------------------------------------------------------------------------
\* Saves of one Layer, each run to its end
\* ------------------------------------------------------------------------
\* The uploads whose save writes the Layer: a QLR file, and a shapefile
\* whose EPSG code is not the one the Layer is stored with.
WritingUploads ==
    {u \in Uploads :
        /\ u.stem = FirstStem
        /\ \/ u.dataset.sniff = [is_qlr |-> TRUE, is_vector |-> FALSE, is_raster |-> FALSE]
              /\ u.dataset.qlr_type = "vector"
           \/ u.dataset.sniff = [is_qlr |-> FALSE, is_vector |-> TRUE, is_raster |-> FALSE]
              /\ u.dataset.probe = [outcome |-> "epsg", code |-> Epsg4326]}

InitTermination ==
    /\ Init
    /\ layer.srid = EpsgString(3857)
    /\ layer.store_vector
    /\ upload \in {Some(u) : u \in WritingUploads}

NextTermination ==
    \/ Save
    \/ \E p \in Procs : Handler(p)

\* The handler runs in the thread of the save that sent the signal: a run
\* that can take a step takes it.
SpecTermination ==
    /\ InitTermination
    /\ [][NextTermination]_vars
    /\ WF_vars(\E p \in Procs : Handler(p))

\* C21: no write made by a run of the Layer post-save handler starts
\* another run of it, and every run that has started comes to its end.
C21_NoRetriggerAndTermination ==
    /\ [](\A p \in Procs : run[p].retriggers = 0)
    /\ \A p \in Procs : (~Ended(p)) ~> Ended(p)

\* C21 witness: the one run of the first save of a QLR Layer has written
\* the Layer's fields, its record and its links, and is complete.
C21_Witness ==
    /\ saves = 1
    /\ run[1].pc = "done"
    /\ run[1].is_qlr_layer
    /\ run[1].trace = <<"copy", "record", "qlr_info", "links", "project", "styles",
                        "links", "thumbnail", "attributes", "xml">>
    /\ run[1].retriggers = 0
    /\ layer.srid = <<"EPSG", 4326>>

\* ------------------------------------------------------------------------
\* Two concurrent saves of one new Layer
\* ------------------------------------------------------------------------
\* The new Layer: a shapefile upload stored in its own reference.
InitConcurrent ==
    /\ Init
    /\ layer.store_vector
    /\ upload # None
    /\ upload[1].dataset.sniff = [is_qlr |-> FALSE, is_vector |-> TRUE, is_raster |-> FALSE]
    /\ upload[1].dataset.probe.outcome = "epsg"
    /\ EpsgString(upload[1].dataset.probe.code) = layer.srid

\* A worker that has not saved the Layer yet saves it: its handler starts
\* whatever the other worker's handler is doing.
ConcurrentSave(p) ==
    /\ run[p].pc = "idle"
    /\ LiveReceivers(receivers["post_save"], "Layer") = <<"qgis_server_post_save">>
    /\ \E overwrite \in BOOLEAN : StartSave(p, overwrite)

NextConcurrent ==
    \/ \E p \in Procs : ConcurrentSave(p)
    \/ \E p \in Procs : Handler(p)

SpecConcurrent == InitConcurrent /\ [][NextConcurrent]_vars

\* C22: once the runs of two concurrent saves of a new Layer are both
\* complete, the record's base_layer_path is the upload's file name under the
\* render directory, and every file a run has written lies in the render
\* directory.
C22_ConcurrentSavesKeepBasePath ==
    (\A p \in Procs : run[p].pc = "done") =>
        /\ qgisLayer = Some([base_layer_path |->
               <<"qgis_layer", "/", upload[1].stem, ".", upload[1].ext>>])
        /\ \A f \in fs : Len(f.path) > 2 /\ f.path[1] = "qgis_layer" /\ f.path[2] = "/"

\* C23: the deletion of the QGISServerLayer record, after any sequence of
\* sequential saves of its Layer, leaves none of the files those saves
\* copied.
C23_DeletionLeavesNoMirroredFile ==
    [][(qgisLayer # None /\ qgisLayer' = None) => fs' = {}]_vars

====
